---- MODULE Spec2Model ----
(***************************************************************************)
(* A model of src/main/c/ShmCreate.c (appose-java): the POSIX shared-memory *)
(* helper create_shared_memory / get_shared_memory_size /                  *)
(* unlink_shared_memory, run by several processes against one operating    *)
(* system.  Every system call of the helper is one atomic step, so calls   *)
(* of different processes interleave between system calls.  A system call  *)
(* may fail for a reason the program does not control (the choice "ok").   *)
(***************************************************************************)
EXTENDS Integers, FiniteSets, Sequences, TLC

\* ------------------------------------------------------------------ bounds
\* Largest size a caller requests (sizes are bytes; only their order matters).
MaxSize == 2
\* Number of shared-memory objects the system can hold at once.
MaxObjs == 2

Procs == {"p1", "p2"}
\* The names callers use; NoName is what a process outside a call holds.
Names == {"/myshm"}
NoName == ""
ReqSizes == 0..MaxSize
Objs == 1..MaxObjs
\* Each process has one descriptor slot: like the demonstration program, a
\* process holds one shared-memory descriptor at a time.
Fds == {0}
Syscalls == {"shm_open", "fstat", "ftruncate", "close", "shm_unlink"}

VARIABLES
  \* ---- the operating system
  ns,           \* the shared-memory namespace: bound name -> object
  objs,         \* the objects that exist
  st_size,      \* object -> its size (struct stat's st_size)
  fdt,          \* process -> its descriptor table: open descriptor -> object
  \* ---- each process: position and the locals of the function it is in
  pc,           \* "idle" (in the caller) or the system call it is about to make
  name,         \* parameter name of create_shared_memory / unlink_shared_memory
  size,         \* parameter size of create_shared_memory
  fd,           \* local fd of create_shared_memory
  already_size, \* local already_size of create_shared_memory
  ret,          \* value returned by the last create_shared_memory
  stderr,       \* the perror labels printed since the last call began
  \* ---- history, read by the properties only
  lastOp,       \* "create" while the caller's last completed operation is a create
  calls,        \* the system calls made by the current/last create_shared_memory
  clean,        \* no other process made a system call on the same name since the call began
  fdsBefore,    \* the caller's open descriptors when the call began
  pre,          \* while clean, what the call found when it began: the size of the
                \* name's object, -1 for a name never bound, -2 for a name just unlinked
  justUnlinked, \* name -> its last successful system call was shm_unlink
  \* ---- the program main, when a process runs it
  mainpc,       \* "none" (no process runs main), or main's position
  shm_fd,       \* local shm_fd of main
  status,       \* the exit status, once mainpc = "exit"
  mainlog       \* history: the calls main has made, in order

osvars == <<ns, objs, st_size, fdt>>
locals == <<pc, name, size, fd, already_size, ret, stderr>>
hist == <<lastOp, calls, clean, fdsBefore, pre, justUnlinked>>
mainvars == <<mainpc, shm_fd, status, mainlog>>
vars == <<osvars, locals, hist, mainvars>>

\* ------------------------------------------------------------ OS helpers
OpenFds(p) == DOMAIN fdt[p]

Referenced(table, o) == \E p \in Procs : \E f \in DOMAIN table[p] : table[p][f] = o

Named(space, o) == \E n \in DOMAIN space : space[n] = o

\* POSIX: an object lives while it is named or held open by some process.
Surviving(space, table) == {o \in objs : Named(space, o) \/ Referenced(table, o)}

\* A destroyed object has no size any more.
Kept(sz, alive) == [o \in Objs |-> IF o \in alive THEN sz[o] ELSE 0]

\* The identity a newly created object gets.
FreeObj == CHOOSE o \in Objs \ objs : \A x \in Objs \ objs : o <= x

\* The objects whose name was unlinked while a process held them open.
Unlinked == {o \in objs : ~Named(ns, o)}

LowestFree(p) == CHOOSE f \in Fds \ OpenFds(p) : \A g \in Fds \ OpenFds(p) : f <= g

Without(fn, x) == [y \in DOMAIN fn \ {x} |-> fn[y]]

\* A system call by q on its name disturbs every other call on that name; what
\* a disturbed call remembered of its beginning is dropped.
Disturbed(p, q) == p # q /\ name[p] = name[q]
Disturb(q) ==
  /\ clean' = [p \in Procs |-> clean[p] /\ ~Disturbed(p, q)]
  /\ pre' = [p \in Procs |-> IF Disturbed(p, q) THEN 0 ELSE pre[p]]

\* The parameter size of a call lives until the call returns; a returned call
\* remembers it while the call is clean.
SizeKept(q, returning) ==
  size' = [p \in Procs |->
             IF (p = q /\ returning /\ ~clean[p]) \/ (Disturbed(p, q) /\ pc[p] = "idle")
               THEN 0 ELSE size[p]]

TypeOK ==
  /\ DOMAIN ns \subseteq Names
  /\ \A n \in DOMAIN ns : ns[n] \in objs
  /\ objs \subseteq Objs
  /\ st_size \in [Objs -> 0..MaxSize]
  /\ \A p \in Procs : DOMAIN fdt[p] \subseteq Fds /\ \A f \in DOMAIN fdt[p] : fdt[p][f] \in objs
  /\ pc \in [Procs -> {"idle", "shm_open", "fstat", "ftruncate", "close", "shm_unlink"}]
  /\ name \in [Procs -> Names \cup {NoName}]
  /\ size \in [Procs -> ReqSizes]
  /\ fd \in [Procs -> Fds \cup {-1}]
  /\ already_size \in [Procs -> (-1)..MaxSize]
  /\ ret \in [Procs -> Fds \cup {-1}]
  /\ stderr \in [Procs -> SUBSET Syscalls]
  /\ calls \in [Procs -> SUBSET Syscalls]
  /\ pre \in [Procs -> (-2)..MaxSize]
  /\ mainpc \in {"none", "start", "create", "close", "unlink", "exit"}
  /\ shm_fd \in Fds \cup {-1}
  /\ status \in {0, 1}

Boot ==
  /\ ns = << >>
  /\ objs = {}
  /\ st_size = [o \in Objs |-> 0]
  /\ fdt = [p \in Procs |-> << >>]
  /\ pc = [p \in Procs |-> "idle"]
  /\ name = [p \in Procs |-> NoName]
  /\ size = [p \in Procs |-> 0]
  /\ fd = [p \in Procs |-> -1]
  /\ already_size = [p \in Procs |-> 0]
  /\ ret = [p \in Procs |-> -1]
  /\ stderr = [p \in Procs |-> {}]
  /\ lastOp = [p \in Procs |-> "none"]
  /\ calls = [p \in Procs |-> {}]
  /\ clean = [p \in Procs |-> FALSE]
  /\ fdsBefore = [p \in Procs |-> {}]
  /\ pre = [p \in Procs |-> 0]
  /\ justUnlinked = [n \in Names |-> FALSE]
  /\ shm_fd = -1
  /\ status = 0
  /\ mainlog = << >>

\* The processes are callers of the helper; none runs main.
Init == Boot /\ mainpc = "none"

\* ------------------------------------------------------- the helper's code
\* perror(label): the diagnostic goes to the process's standard error.
Perror(p, label) == stderr' = [stderr EXCEPT ![p] = @ \cup {label}]

Made(p, call) == calls' = [calls EXCEPT ![p] = @ \cup {call}]

\* return v; from create_shared_memory
Return(p, v) ==
  /\ ret' = [ret EXCEPT ![p] = v]
  /\ pc' = [pc EXCEPT ![p] = "idle"]
  /\ lastOp' = [lastOp EXCEPT ![p] = "create"]

\* get_shared_memory_size(fd): fstat's st_size, or -1 when fstat fails (it fails
\* on a descriptor that is not open, and whenever the system says so).
get_shared_memory_size(p, f, ok) ==
  IF ok /\ f \in OpenFds(p) THEN st_size[fdt[p][f]] ELSE -1

\* if (fd < 0)
OpenFailed_skip(f) == f < -1
OpenFailed(f) == f < 0

\* if (already_size > 0)
AlreadySized_nonneg(a) == a >= 0
AlreadySized_big(a) == a > 1
AlreadySized(a) == a > 0

\* The caller enters create_shared_memory(name, size).
Call_create(p, n, s) ==
  /\ pc[p] = "idle"
  /\ pc' = [pc EXCEPT ![p] = "shm_open"]
  /\ name' = [name EXCEPT ![p] = n]
  /\ size' = [size EXCEPT ![p] = s]
  /\ fd' = [fd EXCEPT ![p] = -1]
  /\ already_size' = [already_size EXCEPT ![p] = 0]
  /\ ret' = [ret EXCEPT ![p] = -1]
  /\ stderr' = [stderr EXCEPT ![p] = {}]
  /\ lastOp' = [lastOp EXCEPT ![p] = "none"]
  /\ calls' = [calls EXCEPT ![p] = {}]
  /\ clean' = [clean EXCEPT ![p] = TRUE]
  /\ fdsBefore' = [fdsBefore EXCEPT ![p] = OpenFds(p)]
  /\ pre' = [pre EXCEPT ![p] = IF justUnlinked[n] THEN -2
                                ELSE IF n \in DOMAIN ns THEN st_size[ns[n]] ELSE -1]
  /\ UNCHANGED <<osvars, justUnlinked>>

\* int fd = shm_open(name, O_CREAT | O_RDWR, 0666); if (fd < 0) { perror; return -1; }
\* The open attaches to the object the name is bound to, or creates an object
\* of size zero and binds the name to it; the descriptor is the lowest free one.
\* It fails with no descriptor or no object left, and
\* whenever the system says so.
ShmOpen(p) ==
  /\ pc[p] = "shm_open"
  /\ \E ok \in BOOLEAN :
       LET n == name[p]
           can == /\ ok
                  /\ OpenFds(p) # Fds
                  /\ (n \in DOMAIN ns \/ objs # Objs)
           o == IF n \in DOMAIN ns THEN ns[n] ELSE FreeObj
           f == IF can THEN LowestFree(p) ELSE -1
       IN /\ fd' = [fd EXCEPT ![p] = f]
          /\ IF can
               THEN /\ ns' = (n :> o) @@ ns
                    /\ objs' = objs \cup {o}
                    /\ fdt' = [fdt EXCEPT ![p] = (f :> o) @@ @]
                    /\ justUnlinked' = [justUnlinked EXCEPT ![n] = FALSE]
                    /\ UNCHANGED st_size
               ELSE UNCHANGED <<osvars, justUnlinked>>
          /\ IF OpenFailed(f)
               THEN Perror(p, "shm_open") /\ Return(p, -1)
               ELSE /\ pc' = [pc EXCEPT ![p] = "fstat"]
                    /\ UNCHANGED <<stderr, ret, lastOp>>
  /\ Made(p, "shm_open")
  /\ Disturb(p)
  /\ SizeKept(p, pc'[p] = "idle")
  /\ UNCHANGED <<name, already_size, fdsBefore, mainvars>>

\* long already_size = get_shared_memory_size(fd); if (already_size > 0) return fd;
Fstat(p) ==
  /\ pc[p] = "fstat"
  /\ \E ok \in BOOLEAN :
       LET r == get_shared_memory_size(p, fd[p], ok)
       IN /\ already_size' = [already_size EXCEPT ![p] = r]
          /\ IF r = -1 THEN Perror(p, "fstat") ELSE UNCHANGED stderr
          /\ IF AlreadySized(r)
               THEN Return(p, fd[p])
               ELSE /\ pc' = [pc EXCEPT ![p] = "ftruncate"]
                    /\ UNCHANGED <<ret, lastOp>>
  /\ Made(p, "fstat")
  /\ Disturb(p)
  /\ SizeKept(p, pc'[p] = "idle")
  /\ UNCHANGED <<osvars, name, fd, fdsBefore, justUnlinked, mainvars>>

\* if (ftruncate(fd, len) == -1) { perror("ftruncate"); ...close... }  return fd;
\* ftruncate fails on a descriptor that is not open, and whenever the system
\* says so.
FtruncateWith(p, len) ==
  /\ pc[p] = "ftruncate"
  /\ \E ok \in BOOLEAN :
       IF ok /\ fd[p] \in OpenFds(p)
         THEN /\ st_size' = [st_size EXCEPT ![fdt[p][fd[p]]] = len]
              /\ Return(p, fd[p])
              /\ UNCHANGED stderr
         ELSE /\ Perror(p, "ftruncate")
              /\ pc' = [pc EXCEPT ![p] = "close"]
              /\ UNCHANGED <<st_size, ret, lastOp>>
  /\ Made(p, "ftruncate")
  /\ Disturb(p)
  /\ SizeKept(p, pc'[p] = "idle")
  /\ UNCHANGED <<ns, objs, fdt, name, fd, already_size, fdsBefore, justUnlinked, mainvars>>

Ftruncate_wrongarg(p) == FtruncateWith(p, already_size[p])
Ftruncate(p) == FtruncateWith(p, size[p])

\* close(d) by process p: the descriptor is released; an object that is neither
\* named nor held open any more is destroyed.
CloseIn(p, d) ==
  /\ fdt' = [fdt EXCEPT ![p] = Without(@, d)]
  /\ objs' = Surviving(ns, fdt')
  /\ st_size' = Kept(st_size, objs')
  /\ UNCHANGED ns

\* The failure path of ftruncate: close(fd); return -1;
CloseOnError_rollback(p) ==
  /\ pc[p] = "close"
  /\ fdt' = [fdt EXCEPT ![p] = Without(@, fd[p])]
  /\ ns' = Without(ns, name[p])
  /\ objs' = {o \in objs : Named(ns', o) \/ Referenced(fdt', o)}
  /\ st_size' = Kept(st_size, objs')
  /\ Return(p, -1)
  /\ Made(p, "close")
  /\ Disturb(p)
  /\ SizeKept(p, TRUE)
  /\ UNCHANGED <<name, fd, already_size, stderr, fdsBefore, justUnlinked, mainvars>>
CloseOnError_leak(p) ==
  /\ pc[p] = "close"
  /\ Return(p, -1)
  /\ Disturb(p)
  /\ SizeKept(p, TRUE)
  /\ UNCHANGED <<osvars, calls, name, fd, already_size, stderr, fdsBefore, justUnlinked, mainvars>>
CloseOnError(p) ==
  /\ pc[p] = "close"
  /\ CloseIn(p, fd[p])
  /\ Return(p, -1)
  /\ Made(p, "close")
  /\ Disturb(p)
  /\ SizeKept(p, TRUE)
  /\ UNCHANGED <<name, fd, already_size, stderr, fdsBefore, justUnlinked, mainvars>>

\* What the caller remembered of its last create_shared_memory is dropped when
\* it goes on to another operation.
ForgetCall(p) ==
  /\ size' = [size EXCEPT ![p] = 0]
  /\ fd' = [fd EXCEPT ![p] = -1]
  /\ already_size' = [already_size EXCEPT ![p] = 0]
  /\ ret' = [ret EXCEPT ![p] = -1]
  /\ stderr' = [stderr EXCEPT ![p] = {}]
  /\ lastOp' = [lastOp EXCEPT ![p] = "none"]
  /\ calls' = [calls EXCEPT ![p] = {}]
  /\ clean' = [clean EXCEPT ![p] = FALSE]
  /\ fdsBefore' = [fdsBefore EXCEPT ![p] = {}]
  /\ pre' = [pre EXCEPT ![p] = 0]

\* The caller enters unlink_shared_memory(name).
Call_unlink(p, n) ==
  /\ pc[p] = "idle"
  /\ pc' = [pc EXCEPT ![p] = "shm_unlink"]
  /\ name' = [name EXCEPT ![p] = n]
  /\ ForgetCall(p)
  /\ UNCHANGED <<osvars, justUnlinked>>

\* shm_unlink(n): the name is removed from the namespace; the object goes with
\* it unless a process still holds it open.  It fails when the name is not
\* bound, and whenever the system says so.
shm_unlink_keepname(n) ==
  /\ justUnlinked' = [justUnlinked EXCEPT ![n] = TRUE]
  /\ UNCHANGED osvars
shm_unlink(n) ==
  /\ ns' = Without(ns, n)
  /\ objs' = Surviving(ns', fdt)
  /\ st_size' = Kept(st_size, objs')
  /\ justUnlinked' = [justUnlinked EXCEPT ![n] = TRUE]
  /\ UNCHANGED fdt

\* unlink_shared_memory returns to its caller.
UnlinkReturns(p) ==
  /\ pc' = [pc EXCEPT ![p] = "idle"]
  /\ name' = [name EXCEPT ![p] = NoName]
  /\ Disturb(p)
  /\ SizeKept(p, FALSE)
  /\ UNCHANGED <<fd, already_size, ret, lastOp, calls, fdsBefore, mainvars>>

\* if (shm_unlink(name) == -1) { perror("shm_unlink"); }
ShmUnlink_silent(p) ==
  /\ pc[p] = "shm_unlink"
  /\ \E ok \in BOOLEAN :
       IF ok /\ name[p] \in DOMAIN ns
         THEN shm_unlink(name[p])
         ELSE UNCHANGED <<osvars, justUnlinked>>
  /\ UNCHANGED stderr
  /\ UnlinkReturns(p)
ShmUnlink_wipe(p) ==
  /\ pc[p] = "shm_unlink"
  /\ \E ok \in BOOLEAN :
       IF ok /\ name[p] \in DOMAIN ns
         THEN /\ ns' = Without(ns, name[p])
              /\ objs' = Surviving(ns', fdt)
              /\ st_size' = Kept([st_size EXCEPT ![ns[name[p]]] = 0], objs')
              /\ justUnlinked' = [justUnlinked EXCEPT ![name[p]] = TRUE]
              /\ UNCHANGED <<fdt, stderr>>
         ELSE Perror(p, "shm_unlink") /\ UNCHANGED <<osvars, justUnlinked>>
  /\ UnlinkReturns(p)
ShmUnlink(p) ==
  /\ pc[p] = "shm_unlink"
  /\ \E ok \in BOOLEAN :
       IF ok /\ name[p] \in DOMAIN ns
         THEN shm_unlink(name[p]) /\ UNCHANGED stderr
         ELSE Perror(p, "shm_unlink") /\ UNCHANGED <<osvars, justUnlinked>>
  /\ UnlinkReturns(p)

\* The caller closes a descriptor it owns: close(f).
CloseFd(p, f) ==
  /\ pc[p] = "idle"
  /\ f \in OpenFds(p)
  /\ CloseIn(p, f)
  /\ ForgetCall(p)
  /\ name' = [name EXCEPT ![p] = NoName]
  /\ UNCHANGED <<pc, justUnlinked>>

\* The system calls of a call in progress.
InCall(p) ==
  \/ ShmOpen(p)
  \/ Fstat(p)
  \/ Ftruncate(p)
  \/ CloseOnError(p)
  \/ ShmUnlink(p)

\* A process that is a caller of the helper makes any call at any time.
CallerCreates(p) ==
  \E n \in Names, s \in ReqSizes : Call_create(p, n, s) /\ UNCHANGED mainvars

CallerUnlinks(p) ==
  \E n \in Names : Call_unlink(p, n) /\ UNCHANGED mainvars

CallerCloses(p) ==
  \E f \in Fds : CloseFd(p, f) /\ UNCHANGED mainvars

Caller(p) ==
  \/ CallerCreates(p)
  \/ CallerUnlinks(p)
  \/ CallerCloses(p)
  \/ InCall(p)

Next == \E p \in Procs : Caller(p)

Spec == Init /\ [][Next]_vars

\* ------------------------------------------------------- the program main
\* The process that runs main, when one does.
MainProc == "p1"

\* const char *shm_name = "/myshm";  size_t shm_size = 1024;  (sizes keep only
\* their order: the program's size is the largest one)
shm_name == "/myshm"
shm_size == MaxSize

EXIT_SUCCESS == 0
EXIT_FAILURE == 1

\* The process ends with the given status; the system closes the descriptors
\* it still holds.
ExitProcess(p, code) ==
  /\ mainpc' = "exit"
  /\ status' = code
  /\ fdt' = [fdt EXCEPT ![p] = << >>]
  /\ objs' = Surviving(ns, fdt')
  /\ st_size' = Kept(st_size, objs')
  /\ UNCHANGED <<ns, locals, hist>>

\* int shm_fd = create_shared_memory(shm_name, shm_size);
main_create ==
  /\ mainpc = "start"
  /\ Call_create(MainProc, shm_name, shm_size)
  /\ mainpc' = "create"
  /\ mainlog' = Append(mainlog, <<"create", shm_name>>)
  /\ UNCHANGED <<shm_fd, status>>

\* if (shm_fd < 0)
CreateFailed(f) == f < 0

\* if (shm_fd < 0) { exit(EXIT_FAILURE); }
main_exit_failure ==
  /\ mainpc = "create" /\ pc[MainProc] = "idle"
  /\ CreateFailed(ret[MainProc])
  /\ shm_fd' = ret[MainProc]
  /\ ExitProcess(MainProc, EXIT_FAILURE)
  /\ UNCHANGED mainlog

\* close(shm_fd);  (on a descriptor that is not open, close fails and main
\* goes on)
main_close_skip ==
  /\ mainpc = "create" /\ pc[MainProc] = "idle"
  /\ ~CreateFailed(ret[MainProc])
  /\ shm_fd' = ret[MainProc]
  /\ ForgetCall(MainProc)
  /\ name' = [name EXCEPT ![MainProc] = NoName]
  /\ mainpc' = "close"
  /\ UNCHANGED <<osvars, pc, justUnlinked, status, mainlog>>
main_close ==
  /\ mainpc = "create" /\ pc[MainProc] = "idle"
  /\ ~CreateFailed(ret[MainProc])
  /\ shm_fd' = ret[MainProc]
  /\ IF ret[MainProc] \in OpenFds(MainProc)
       THEN CloseFd(MainProc, ret[MainProc])
       ELSE /\ ForgetCall(MainProc)
            /\ name' = [name EXCEPT ![MainProc] = NoName]
            /\ UNCHANGED <<osvars, pc, justUnlinked>>
  /\ mainpc' = "close"
  /\ mainlog' = Append(mainlog, <<"close", "shm_fd">>)
  /\ UNCHANGED status

\* unlink_shared_memory(shm_name);
main_unlink ==
  /\ mainpc = "close"
  /\ Call_unlink(MainProc, shm_name)
  /\ mainpc' = "unlink"
  /\ mainlog' = Append(mainlog, <<"unlink", shm_name>>)
  /\ UNCHANGED <<shm_fd, status>>

\* return 0;
main_return ==
  /\ mainpc = "unlink" /\ pc[MainProc] = "idle"
  /\ ExitProcess(MainProc, EXIT_SUCCESS)
  /\ UNCHANGED <<shm_fd, mainlog>>

main ==
  \/ main_create
  \/ main_exit_failure
  \/ main_close
  \/ main_unlink
  \/ main_return
  \/ (mainpc \in {"create", "unlink"} /\ InCall(MainProc))

\* One process runs main from its start while the others are callers of the
\* helper.  A running process keeps being scheduled: main is weakly fair.
InitMain == Boot /\ mainpc = "start"

NextMain == main \/ \E p \in Procs \ {MainProc} : Caller(p)

SpecMain == InitMain /\ [][NextMain]_vars /\ WF_vars(main)

\* ------------------------------------------------------------- properties
\* The caller's last operation is a create_shared_memory that has returned.
Returned(p) == pc[p] = "idle" /\ lastOp[p] = "create"

\* What get_shared_memory_size answers now on the descriptor the call returned.
QuerySize(p) == get_shared_memory_size(p, ret[p], TRUE)

\* The call of p ran with no other process touching its name and with no
\* system call failing.
Undisturbed(p) == Returned(p) /\ clean[p] /\ stderr[p] = {}

\* C1: a create_shared_memory(name, size) with size > 0 on a name that is not
\* bound, run with no interleaving and no failing system call, returns an open
\* descriptor on which get_shared_memory_size answers size.
C1_CreateThenQuery ==
  \A p \in Procs :
    (Undisturbed(p) /\ pre[p] < 0 /\ size[p] > 0)
      => (ret[p] \in OpenFds(p) /\ QuerySize(p) = size[p])

C1_Witness ==
  \E p \in Procs :
    /\ Undisturbed(p) /\ pre[p] = -1 /\ size[p] = MaxSize
    /\ ret[p] \in OpenFds(p) /\ QuerySize(p) = MaxSize

\* C2: when the name's object already has size s1 > 0 (a first call sized it)
\* and the name is still bound, a second successful create_shared_memory on
\* the name with another size returns a descriptor whose size is s1.
C2_FirstWriterWins ==
  \A p \in Procs :
    (Returned(p) /\ clean[p] /\ ret[p] >= 0 /\ pre[p] > 0 /\ size[p] # pre[p]
       /\ name[p] \in DOMAIN ns)
      => QuerySize(p) = pre[p]

\* The object behind an open descriptor of p.
ObjOf(p, f) == fdt[p][f]

\* Process p takes its ftruncate step on object o.
ResizeStepOn(p, o) ==
  /\ pc[p] = "ftruncate" /\ pc'[p] # "ftruncate"
  /\ fd[p] \in OpenFds(p) /\ ObjOf(p, fd[p]) = o

\* C3 as stated: under any interleaving, once an object has a size greater
\* than zero its size never changes again.
C3_SizeNeverChanges ==
  [][\A o \in Objs :
       (o \in objs /\ o \in objs' /\ st_size[o] > 0) => st_size'[o] = st_size[o]]_vars

\* C3 amended: a call whose size query answered a size greater than zero never
\* resizes; the size of an already-sized object changes only in the ftruncate
\* step of a call whose own size query did not answer a positive size (it had
\* answered zero before another process sized the object, or it had failed).
C3_OnlyUnsizedObserverResizes ==
  [][/\ \A p \in Procs : (pc[p] = "fstat" /\ already_size'[p] > 0) => Returned(p)'
     /\ \A o \in Objs :
          (o \in objs /\ o \in objs' /\ st_size[o] > 0 /\ st_size'[o] # st_size[o])
            => \E p \in Procs : ResizeStepOn(p, o) /\ already_size[p] <= 0]_vars

C3_Witness ==
  \E p \in Procs :
    /\ Returned(p) /\ clean[p] /\ ret[p] \in OpenFds(p)
    /\ already_size[p] > 0 /\ size[p] > already_size[p]
    /\ "ftruncate" \notin calls[p]
    /\ QuerySize(p) = already_size[p]

\* C4: after a successful unlink_shared_memory(name), the next
\* create_shared_memory(name, s) with s > 0 (undisturbed, nothing failing)
\* returns a descriptor on a fresh object, not the unlinked one, and
\* get_shared_memory_size answers s whatever size the unlinked object had.
C4_RecreateAfterUnlink ==
  \A p \in Procs :
    (Undisturbed(p) /\ pre[p] = -2 /\ size[p] > 0)
      => /\ ret[p] \in OpenFds(p)
         /\ ObjOf(p, ret[p]) \notin Unlinked
         /\ name[p] \in DOMAIN ns /\ ns[name[p]] = ObjOf(p, ret[p])
         /\ QuerySize(p) = size[p]

C4_Witness ==
  \E p \in Procs : \E o \in Unlinked :
    /\ Undisturbed(p) /\ pre[p] = -2 /\ size[p] > 0
    /\ ret[p] \in OpenFds(p) /\ ObjOf(p, ret[p]) # o
    /\ st_size[o] > 0 /\ st_size[o] # size[p]
    /\ QuerySize(p) = size[p]

\* C5: a step that removes a name from the namespace leaves every descriptor
\* table as it was and every object held open alive with the size it had; an
\* object exists as long as a descriptor is open on it; and a later shm_open
\* of the name never attaches to an object whose name was unlinked.
C5_UnlinkOnlyRemovesName ==
  [][/\ \A n \in DOMAIN ns :
          n \notin DOMAIN ns'
            => /\ fdt' = fdt
               /\ \A p \in Procs : \A f \in OpenFds(p) :
                    ObjOf(p, f) \in objs' /\ st_size'[ObjOf(p, f)] = st_size[ObjOf(p, f)]
     /\ \A p \in Procs : \A f \in DOMAIN fdt'[p] : fdt'[p][f] \in objs'
     /\ \A p \in Procs :
          (pc[p] = "shm_open" /\ fd'[p] \in DOMAIN fdt'[p])
            => fdt'[p][fd'[p]] \notin Unlinked]_vars

C5_Witness ==
  \E p \in Procs : \E q \in Procs \ {p} :
    /\ OpenFds(p) # {} /\ OpenFds(q) # {}
    /\ \E f \in OpenFds(p) : ObjOf(p, f) \in Unlinked /\ st_size[ObjOf(p, f)] > 0
    /\ Returned(q) /\ ret[q] \in OpenFds(q) /\ ObjOf(q, ret[q]) \notin Unlinked

\* Nothing of the operating system changes in the step.
OsUntouched == ns' = ns /\ objs' = objs /\ st_size' = st_size /\ fdt' = fdt

\* C6: unlink_shared_memory on a name that is not bound prints the shm_unlink
\* diagnostic and returns to its caller, which goes on; the namespace, every
\* object's size and every descriptor table are unchanged.
C6_UnlinkMissingName ==
  [][\A p \in Procs :
       (pc[p] = "shm_unlink" /\ pc'[p] # "shm_unlink" /\ name[p] \notin DOMAIN ns)
         => ("shm_unlink" \in stderr'[p] /\ pc'[p] = "idle" /\ OsUntouched)]_vars

C6_Witness ==
  \E p \in Procs : \E q \in Procs \ {p} :
    /\ pc[p] = "idle" /\ "shm_unlink" \in stderr[p]
    /\ DOMAIN ns = {} /\ \A n \in Names : justUnlinked[n]
    /\ \E f \in OpenFds(q) : st_size[ObjOf(q, f)] > 0

\* C7: when shm_open fails, create_shared_memory returns -1 having made no
\* other system call (no fstat, no ftruncate), and the namespace, every
\* object's size and every descriptor table are unchanged.
C7_OpenFailure ==
  [][\A p \in Procs :
       (pc[p] = "shm_open" /\ pc'[p] # "shm_open" /\ fd'[p] < 0)
         => /\ Returned(p)' /\ ret'[p] = -1
            /\ calls'[p] = {"shm_open"}
            /\ OsUntouched]_vars

C7_Witness ==
  \E p \in Procs :
    /\ Returned(p) /\ "shm_open" \in stderr[p] /\ ret[p] = -1
    /\ calls[p] = {"shm_open"}
    /\ name[p] \in DOMAIN ns /\ st_size[ns[name[p]]] > 0

\* C8: a create_shared_memory whose ftruncate failed has closed the descriptor
\* it opened and returned -1: the caller's open descriptors are those it had
\* when the call began.
C8_ResizeFailureClosesFd ==
  \A p \in Procs :
    (Returned(p) /\ "ftruncate" \in stderr[p])
      => (ret[p] = -1 /\ "close" \in calls[p] /\ OpenFds(p) = fdsBefore[p])

C8_Witness ==
  \E p \in Procs :
    /\ Returned(p) /\ stderr[p] = {"ftruncate"} /\ ret[p] = -1
    /\ fd[p] \notin OpenFds(p) /\ OpenFds(p) = fdsBefore[p]

\* C9 as stated: a create_shared_memory whose size query failed fails, it
\* returns no usable descriptor.
C9_StatFailureFails ==
  \A p \in Procs :
    (Returned(p) /\ "fstat" \in stderr[p]) => ret[p] = -1

ExitedAsPrescribed ==
  \/ /\ shm_fd < 0
     /\ status = EXIT_FAILURE /\ status # 0
     /\ mainlog = << <<"create", shm_name>> >>
  \/ /\ shm_fd >= 0
     /\ status = 0
     /\ mainlog = << <<"create", shm_name>>, <<"close", "shm_fd">>, <<"unlink", shm_name>> >>

\* C11: main always terminates; it exits non-zero without close or unlink when
\* create_shared_memory failed, and otherwise closes its descriptor, unlinks
\* the same name and exits zero, whether or not the unlink failed, holding no
\* open descriptor when it exits.
C11_MainTerminates ==
  /\ <>(mainpc = "exit")
  /\ [](mainpc = "exit" => ExitedAsPrescribed)
  /\ [][(mainpc = "unlink" /\ mainpc' = "exit")
          => (status' = 0 /\ OpenFds(MainProc) = {})]_vars

C11_Witness ==
  /\ mainpc = "exit" /\ status = 0 /\ shm_fd >= 0
  /\ "shm_unlink" \in stderr[MainProc]
  /\ OpenFds(MainProc) = {}

\* C12: a create_shared_memory on an unbound name that fails at ftruncate
\* returns -1 and leaves the name bound to the object shm_open created, at size
\* zero; and a later create_shared_memory(name, s2) with s2 > 0 that finds the
\* name bound to a size-zero object and succeeds is attached to that object and
\* has sized it to s2.
C12_FailedResizeLeavesObject ==
  \A p \in Procs :
    /\ (Returned(p) /\ clean[p] /\ pre[p] < 0 /\ "ftruncate" \in stderr[p])
         => /\ ret[p] = -1
            /\ name[p] \in DOMAIN ns
            /\ st_size[ns[name[p]]] = 0
    /\ (Returned(p) /\ clean[p] /\ pre[p] = 0 /\ size[p] > 0 /\ ret[p] >= 0)
         => /\ ret[p] \in OpenFds(p)
            /\ name[p] \in DOMAIN ns /\ ObjOf(p, ret[p]) = ns[name[p]]
            /\ QuerySize(p) = size[p]

C12_Witness ==
  \E p \in Procs : \E q \in Procs \ {p} :
    /\ Returned(q) /\ "ftruncate" \in stderr[q] /\ ret[q] = -1 /\ OpenFds(q) = {}
    /\ Returned(p) /\ clean[p] /\ pre[p] = 0 /\ size[p] > 0
    /\ ret[p] \in OpenFds(p) /\ QuerySize(p) = size[p]
    /\ objs = {ObjOf(p, ret[p])}

\* C13: a successful create_shared_memory(name, 0) on an unbound name returns
\* an open descriptor on an object of size zero; and when a later
\* create_shared_memory(name, s2) with s2 > 0 finds the object at size zero and
\* succeeds, every descriptor another process holds on that object, the first
\* caller's included, now shows size s2.
C13_ZeroSizeStaysUnsized ==
  \A p \in Procs :
    /\ (Returned(p) /\ clean[p] /\ pre[p] < 0 /\ size[p] = 0 /\ ret[p] >= 0)
         => (ret[p] \in OpenFds(p) /\ QuerySize(p) = 0)
    /\ (Returned(p) /\ clean[p] /\ pre[p] = 0 /\ size[p] > 0 /\ ret[p] \in OpenFds(p))
         => \A q \in Procs \ {p} : \A f \in OpenFds(q) :
              ObjOf(q, f) = ObjOf(p, ret[p])
                => get_shared_memory_size(q, f, TRUE) = size[p]

C13_Witness ==
  \E p \in Procs : \E q \in Procs \ {p} :
    /\ Returned(q) /\ stderr[q] = {} /\ ret[q] \in OpenFds(q)
    /\ already_size[q] = 0 /\ "ftruncate" \in calls[q]
    /\ Returned(p) /\ clean[p] /\ stderr[p] = {} /\ pre[p] = 0 /\ size[p] > 0
    /\ ret[p] \in OpenFds(p) /\ ObjOf(p, ret[p]) = ObjOf(q, ret[q])
    /\ QuerySize(q) = size[p]

====
